---- MODULE Spec2Model ----
(***************************************************************************)
(* Model of fastapi_crud.py: an in-memory CRUD service over the dict       *)
(* items_db.  In Spec every handler is one atomic action (sequential       *)
(* execution); in ConcSpec the handlers that write run on worker threads,  *)
(* one step per statement that reads or writes shared state; RouteSpec     *)
(* dispatches request paths to handlers.                                   *)
(*                                                                         *)
(* Encoding of Python values                                               *)
(*   str            a sequence of one-character strings                    *)
(*   Optional[T]    None is the empty set, a present value v is {v}        *)
(*   float          an integer number of tenths (15 stands for 1.5)        *)
(*   dict           a sequence of [key, value] entries in insertion order  *)
(*   JSON body      a function from the supplied keys to Optional values   *)
(***************************************************************************)
EXTENDS Integers, Sequences, FiniteSets, TLC

VARIABLES
  items_db,      \* the dict items_db
  drawn,         \* history: the values uuid4() has returned, in order
  deleted_ids,   \* history: the ids whose delete has succeeded
  last,          \* the last request and its response
  th,            \* per worker thread: the handler it runs and its locals
  detached       \* Item objects deleted from items_db that a thread may hold

vars == <<items_db, drawn, deleted_ids, last, th, detached>>

\* ------------------------------------------------------------------ bounds
MaxUuids == 2       \* number of values uuid4() can draw
MaxArg == 2         \* skip and limit range over -NegArg .. MaxArg
NegArg == 1
NumThreads == 2     \* worker threads running handlers concurrently
MaxConcUuids == 1   \* number of values uuid4() can draw in a concurrent run

\* ------------------------------------------------------- program constants
DefaultSkip == 0
DefaultLimit == 100

\* ------------------------------------------------------ Python primitives
None == {}
Some(v) == {v}
Val(o) == CHOOSE v \in o : TRUE

Range(s) == {s[i] : i \in 1..Len(s)}

Min(a, b) == IF a < b THEN a ELSE b
Max(a, b) == IF a > b THEN a ELSE b

\* str.lower() on one character of the model's alphabet
LowerChar(c) ==
  CASE c = "W" -> "w"
    [] c = "B" -> "b"
    [] OTHER -> c

\* str.lower()
Lower(s) == [i \in 1..Len(s) |-> LowerChar(s[i])]

\* a in b, for two str
StrIn(a, b) ==
  \E i \in 0..(Len(b) - Len(a)) : SubSeq(b, i + 1, i + Len(a)) = a

\* truthiness of an Optional[str]: None and "" are falsy
Truthy(o) == o # None /\ Val(o) # <<>>

\* s[start:stop] on a list
SliceIndex(i, n) == IF i < 0 THEN Max(n + i, 0) ELSE Min(i, n)
Slice(s, start, stop) ==
  SubSeq(s, SliceIndex(start, Len(s)) + 1, SliceIndex(stop, Len(s)))

\* ------------------------------------------------------------- dict model
DictKeys(d) == {d[i].key : i \in 1..Len(d)}
DictHas(d, k) == k \in DictKeys(d)
DictIndex(d, k) == CHOOSE i \in 1..Len(d) : d[i].key = k
DictGet(d, k) == d[DictIndex(d, k)].value

\* d[k] = v: an existing key keeps its position, a new key goes last
MutDictSetMoveToEnd(d, k, v) ==
  Append(SelectSeq(d, LAMBDA e : e.key # k), [key |-> k, value |-> v])
DictSet(d, k, v) ==
  IF DictHas(d, k)
  THEN [d EXCEPT ![DictIndex(d, k)] = [key |-> k, value |-> v]]
  ELSE Append(d, [key |-> k, value |-> v])

\* del d[k]
MutDictDelLast(d, k) == SubSeq(d, 1, Len(d) - 1)
DictDel(d, k) ==
  LET i == DictIndex(d, k)
  IN  SubSeq(d, 1, i - 1) \o SubSeq(d, i + 1, Len(d))

\* list(d.values())
DictValues(d) == [i \in 1..Len(d) |-> d[i].value]

\* ------------------------------------------------------------------ uuid4
HexDigit(n) == <<"0", "1", "2", "3", "4", "5", "6", "7",
                 "8", "9", "a", "b", "c", "d", "e", "f">>[n + 1]

\* str(uuid): fixed-width hexadecimal groups joined by a hyphen
StrOfUuid(n) == <<HexDigit((n \div 16) % 16), "-", HexDigit(n % 16)>>

UuidSpace == 1..MaxUuids

\* uuid4(): a value the generator has not produced before
MutUuid4Reuse(seen) == UuidSpace
Uuid4(seen) == UuidSpace \ seen

\* ---------------------------------------------------------- pydantic models
ItemFields == <<"name", "description", "price", "in_stock">>
ItemFieldSet == {ItemFields[i] : i \in 1..Len(ItemFields)}

Supplied(body, f) == f \in DOMAIN body

\* ItemCreate(**body): name and price are required and not None, in_stock
\* is a bool when supplied; keys that are no field are ignored
ItemCreateValid(body) ==
  /\ Supplied(body, "name") /\ body["name"] # None
  /\ Supplied(body, "price") /\ body["price"] # None
  /\ Supplied(body, "in_stock") => body["in_stock"] # None

\* item.dict(): every field, with the class defaults for the omitted ones
MutItemCreateDictNoDefault(body) ==
  [name |-> body["name"],
   description |-> IF Supplied(body, "description") THEN body["description"] ELSE None,
   price |-> body["price"],
   in_stock |-> IF Supplied(body, "in_stock") THEN body["in_stock"] ELSE Some(FALSE)]
ItemCreateDict(body) ==
  [name |-> body["name"],
   description |-> IF Supplied(body, "description") THEN body["description"] ELSE None,
   price |-> body["price"],
   in_stock |-> IF Supplied(body, "in_stock") THEN body["in_stock"] ELSE Some(TRUE)]

\* Item(id=item_id, **item.dict())
NewItem(item_id, d) ==
  [id |-> item_id, name |-> d.name, description |-> d.description,
   price |-> d.price, in_stock |-> d.in_stock]

\* item_update.dict(exclude_unset=True): the declared fields that were
\* supplied, None included; in declaration order
UpdateData(body) == SelectSeq(ItemFields, LAMBDA f : Supplied(body, f))

\* setattr(stored_item, field, value)
MutSetAttrDropNone(obj, f, value) ==
  IF value = None THEN obj ELSE [obj EXCEPT ![f] = value]
SetAttr(obj, f, value) == [obj EXCEPT ![f] = value]

\* for field, value in update_data.items(): setattr(stored_item, field, value)
RECURSIVE ApplyFields(_, _, _)
ApplyFields(obj, fields, body) ==
  IF fields = <<>> THEN obj
  ELSE ApplyFields(SetAttr(obj, Head(fields), body[Head(fields)]),
                   Tail(fields), body)

\* ---------------------------------------------------------------- responses
Ok(body) == [status |-> 200, body |-> body]
NotFound == [status |-> 404, body |-> "Item not found"]
Unprocessable == [status |-> 422, body |-> "validation error"]
ServerError == [status |-> 500, body |-> "Internal Server Error"]

\* ------------------------------------------------------------------ inputs
Bolt == <<"B">>
Widget1 == <<"w", "1">>
Abc == <<"a", "b", "c">>

\* JSON bodies of POST /items/: the defaults taken, every field supplied,
\* an empty description with a client-supplied id, and a missing price
CreateBodies ==
  { [name |-> Some(Bolt), price |-> Some(15)],
    [name |-> Some(Widget1), description |-> Some(<<"B", "w">>),
     price |-> Some(20), in_stock |-> Some(FALSE)],
    [id |-> Some(Abc), name |-> Some(Widget1), description |-> Some(<<>>),
     price |-> Some(20), in_stock |-> Some(FALSE)],
    [name |-> Some(Bolt)] }

\* JSON bodies of PUT /items/{item_id}: one field; and two fields, one an
\* explicit null, with a key that is no field of ItemUpdate
UpdateBodies ==
  { [price |-> Some(20)],
    [id |-> Some(Abc), name |-> None, in_stock |-> Some(TRUE)] }

\* values of the path parameter item_id
PathIds == {StrOfUuid(n) : n \in UuidSpace} \cup {Abc}

\* values of the query parameter q
Queries == { <<>>, <<"W">>, <<"b">>, <<"1", "w">> }

\* values of the query parameters skip and limit: a range around zero, the
\* defaults, and the pair of the two-item scenario
IntArgs == (0 - NegArg)..MaxArg
ScenarioArgs == <<1, 10>>
ListArgs ==
  (IntArgs \X IntArgs) \cup {<<DefaultSkip, DefaultLimit>>, ScenarioArgs}

\* ---------------------------------------------------------------- handlers
\* Each handler maps the store and its arguments to the store afterwards
\* and the response.

\* POST /items/
create_item(db, body, u) ==
  LET item_id == StrOfUuid(u)
      new_item == NewItem(item_id, ItemCreateDict(body))
  IN  [db |-> DictSet(db, item_id, new_item), resp |-> Ok(new_item)]

\* GET /items/
MutReadItemsStopAtLimit(db, skip, limit) ==
  [db |-> db, resp |-> Ok(Slice(DictValues(db), skip, limit))]
read_items(db, skip, limit) ==
  LET items == DictValues(db)
  IN  [db |-> db, resp |-> Ok(Slice(items, skip, skip + limit))]

\* GET /items/{item_id}
MutReadItemPop(db, item_id) ==
  IF ~DictHas(db, item_id)
  THEN [db |-> db, resp |-> NotFound]
  ELSE [db |-> SelectSeq(db, LAMBDA e : e.key # item_id),
        resp |-> Ok(DictGet(db, item_id))]
read_item(db, item_id) ==
  IF ~DictHas(db, item_id)
  THEN [db |-> db, resp |-> NotFound]
  ELSE [db |-> db, resp |-> Ok(DictGet(db, item_id))]

\* PUT /items/{item_id}
MutUpdateItemRejectNoneLate(db, item_id, body) ==
  IF ~DictHas(db, item_id)
  THEN [db |-> db, resp |-> NotFound]
  ELSE LET stored_item == ApplyFields(DictGet(db, item_id), UpdateData(body), body)
           written == DictSet(db, item_id, stored_item)
       IN  IF \E f \in Range(UpdateData(body)) : body[f] = None
           THEN [db |-> written, resp |-> Unprocessable]
           ELSE [db |-> written, resp |-> Ok(stored_item)]
update_item(db, item_id, body) ==
  IF ~DictHas(db, item_id)
  THEN [db |-> db, resp |-> NotFound]
  ELSE LET stored_item == ApplyFields(DictGet(db, item_id), UpdateData(body), body)
       IN  [db |-> DictSet(db, item_id, stored_item), resp |-> Ok(stored_item)]

\* DELETE /items/{item_id}
MutDeleteItemIdempotent(db, item_id) ==
  IF ~DictHas(db, item_id)
  THEN [db |-> db, resp |-> Ok("Item deleted successfully")]
  ELSE [db |-> DictDel(db, item_id),
        resp |-> Ok("Item deleted successfully")]
delete_item(db, item_id) ==
  IF ~DictHas(db, item_id)
  THEN [db |-> db, resp |-> NotFound]
  ELSE [db |-> DictDel(db, item_id),
        resp |-> Ok("Item deleted successfully")]

\* the condition of the loop of search_items, for an item whose name is a str
Matches(q, item) ==
  \/ StrIn(Lower(q), Lower(Val(item.name)))
  \/ /\ Truthy(item.description)
     /\ StrIn(Lower(q), Lower(Val(item.description)))

\* GET /items/search/ : item.name.lower() raises AttributeError on None
search_items(db, q) ==
  LET items == DictValues(db)
  IN  IF \E i \in 1..Len(items) : items[i].name = None
      THEN [db |-> db, resp |-> ServerError]
      ELSE [db |-> db, resp |-> Ok(SelectSeq(items, LAMBDA item : Matches(q, item)))]

\* GET /health
MutHealthCheckInStockOnly(db) ==
  [db |-> db,
   resp |-> Ok([status |-> "healthy",
                total_items |->
                  Len(SelectSeq(db, LAMBDA e : e.value.in_stock = Some(TRUE)))])]
health_check(db) ==
  [db |-> db, resp |-> Ok([status |-> "healthy", total_items |-> Len(db)])]

\* GET /
read_root(db) ==
  [db |-> db, resp |-> Ok([message |-> "Welcome to the Basic CRUD API"])]

\* ------------------------------------------------------------------ actions
Threads == 1..NumThreads
Idle == [pc |-> "idle"]

Init ==
  /\ items_db = <<>>
  /\ drawn = <<>>
  /\ deleted_ids = {}
  /\ last = [op |-> "none", req |-> <<>>, resp |-> Ok(<<>>)]
  /\ th = [t \in Threads |-> Idle]
  /\ detached = {}

Finish(op, req, r) ==
  /\ items_db' = r.db
  /\ UNCHANGED <<th, detached>>
  /\ last' = [op |-> op, req |-> req, resp |-> r.resp]

Create ==
  \E body \in CreateBodies :
    /\ ItemCreateValid(body)
    /\ \E u \in Uuid4(Range(drawn)) :
         /\ drawn' = Append(drawn, u)
         /\ Finish("create", body, create_item(items_db, body, u))
    /\ UNCHANGED deleted_ids

CreateInvalid ==
  \E body \in CreateBodies :
    /\ ~ItemCreateValid(body)
    /\ Finish("create", body, [db |-> items_db, resp |-> Unprocessable])
    /\ UNCHANGED <<drawn, deleted_ids>>

List ==
  \E a \in ListArgs :
    /\ Finish("list", [skip |-> a[1], limit |-> a[2]],
              read_items(items_db, a[1], a[2]))
    /\ UNCHANGED <<drawn, deleted_ids>>

Get ==
  \E item_id \in PathIds :
    /\ Finish("get", item_id, read_item(items_db, item_id))
    /\ UNCHANGED <<drawn, deleted_ids>>

Update ==
  \E item_id \in PathIds, body \in UpdateBodies :
    /\ Finish("update", [item_id |-> item_id, body |-> body],
              update_item(items_db, item_id, body))
    /\ UNCHANGED <<drawn, deleted_ids>>

Delete ==
  \E item_id \in PathIds :
    LET r == delete_item(items_db, item_id)
    IN  /\ Finish("delete", item_id, r)
        /\ deleted_ids' = IF r.resp.status = 200
                          THEN deleted_ids \cup {item_id} ELSE deleted_ids
        /\ UNCHANGED drawn

Search ==
  \E q \in Queries :
    /\ Finish("search", q, search_items(items_db, q))
    /\ UNCHANGED <<drawn, deleted_ids>>

Health ==
  /\ Finish("health", <<>>, health_check(items_db))
  /\ UNCHANGED <<drawn, deleted_ids>>

Root ==
  /\ Finish("root", <<>>, read_root(items_db))
  /\ UNCHANGED <<drawn, deleted_ids>>

Next ==
  \/ Create
  \/ CreateInvalid
  \/ List
  \/ Get
  \/ Update
  \/ Delete
  \/ Search
  \/ Health
  \/ Root

Spec == Init /\ [][Next]_vars

\* ------------------------------------------------------------------ claims
\* the id a get, update or delete request names
ReqId(l) == IF l.op = "update" THEN l.req.item_id ELSE l.req

\* the ids earlier creates have returned
ReturnedIds == {StrOfUuid(u) : u \in Range(drawn)}

\* no key twice, and every value carries its key as its id
WellKeyed(db) ==
  /\ \A i, j \in 1..Len(db) : db[i].key = db[j].key => i = j
  /\ \A i \in 1..Len(db) : db[i].value.id = db[i].key

\* C1: every successful create returns an id that is non-empty, was never
\* returned by an earlier create (deleted or not) and is no key of the store
\* before it; and after every step each key occurs once, on an Item whose id
\* is that key.
C1_CreateIdFresh ==
  [][ /\ WellKeyed(items_db')
      /\ (last'.op = "create" /\ last'.resp.status = 200) =>
           LET id == last'.resp.body.id
           IN  /\ id # <<>>
               /\ id \notin ReturnedIds
               /\ id \notin DictKeys(items_db)
               /\ DictHas(items_db', id)
               /\ \A k \in DictKeys(items_db) :
                    DictHas(items_db', k) /\ DictGet(items_db', k).id # id
    ]_vars

\* C1 witness: a create has succeeded after a delete
C1_Witness ==
  /\ last.op = "create" /\ last.resp.status = 200
  /\ deleted_ids # {}
  /\ DictHas(items_db, last.resp.body.id)

\* C2: after a successful create, a get of the returned id succeeds and
\* returns the Item create returned: the id the generated one, name and price
\* as supplied, description null when omitted, in_stock true when omitted.
C2_CreateGetRoundTrip ==
  (last.op = "create" /\ last.resp.status = 200) =>
    LET made == last.resp.body
        body == last.req
        got == read_item(items_db, made.id).resp
    IN  /\ got.status = 200
        /\ got.body = made
        /\ made.id = StrOfUuid(drawn[Len(drawn)])
        /\ made.name = body["name"]
        /\ made.price = body["price"]
        /\ made.description =
             IF Supplied(body, "description") THEN body["description"] ELSE None
        /\ made.in_stock =
             IF Supplied(body, "in_stock") THEN body["in_stock"] ELSE Some(TRUE)

\* C2 witness: a create that omitted description and in_stock has succeeded
\* on a store that held an item already
C2_Witness ==
  /\ last.op = "create" /\ last.resp.status = 200
  /\ ~Supplied(last.req, "description") /\ ~Supplied(last.req, "in_stock")
  /\ Len(items_db) > 1

\* C3: an update of a present item leaves it present at its id with each
\* supplied field at the supplied value and each other field of name,
\* description, price, in_stock at its prior value, the id unchanged even
\* if the body carries an id, and every other entry of the store as it was.
C3_PartialUpdate ==
  [][ (last'.op = "update" /\ DictHas(items_db, last'.req.item_id)) =>
        LET id == last'.req.item_id
            body == last'.req.body
            old == DictGet(items_db, id)
            new == DictGet(items_db', id)
        IN  /\ DictHas(items_db', id)
            /\ \A f \in ItemFieldSet :
                 new[f] = IF Supplied(body, f) THEN body[f] ELSE old[f]
            /\ new.id = old.id
            /\ new.id = id
            /\ Len(items_db') = Len(items_db)
            /\ \A i \in 1..Len(items_db) :
                 /\ items_db'[i].key = items_db[i].key
                 /\ items_db[i].key # id => items_db'[i] = items_db[i]
    ]_vars

\* C3 witness: an update whose body carried an id and an explicit null has
\* succeeded on one of two stored items, leaving its price as created
C3_Witness ==
  /\ last.op = "update" /\ last.resp.status = 200
  /\ Supplied(last.req.body, "id") /\ ~Supplied(last.req.body, "price")
  /\ last.resp.body.name = None /\ last.resp.body.price = Some(15)
  /\ Len(items_db) > 1

\* C4: a get, update or delete of an id that is no key of the store answers
\* 404 and leaves the store as it was.
C4_AbsentIdNotFound ==
  [][ (last'.op \in {"get", "update", "delete"}
       /\ ~DictHas(items_db, ReqId(last'))) =>
        /\ last'.resp.status = 404
        /\ items_db' = items_db
    ]_vars

\* C4 witness: a delete of an id that was never a key has answered 404 on a
\* store that holds an item
C4_Witness ==
  /\ last.op = "delete" /\ last.resp.status = 404
  /\ last.req \notin deleted_ids
  /\ items_db # <<>>

\* C5: once a delete of an id has succeeded, that id is never a key again and
\* every later get, update or delete of it answers 404; and a delete of a
\* present id succeeds and removes that entry alone, the others keeping
\* their values and their order.
C5_DeletedStaysGone ==
  [][ /\ deleted_ids' \cap DictKeys(items_db') = {}
      /\ (last'.op \in {"get", "update", "delete"}
          /\ ReqId(last') \in deleted_ids) => last'.resp.status = 404
      /\ (last'.op = "delete" /\ DictHas(items_db, last'.req)) =>
           /\ last'.resp.status = 200
           /\ items_db' = SelectSeq(items_db, LAMBDA e : e.key # last'.req)
           /\ Len(items_db') = Len(items_db) - 1
    ]_vars

\* C5 witness: a repeated delete of a deleted id has answered 404 after
\* another item was created
C5_Witness ==
  /\ last.op = "delete" /\ last.resp.status = 404
  /\ last.req \in deleted_ids
  /\ items_db # <<>>

\* C6: every stored item has a name and a price that are not null.
C6_NameAndPricePresent ==
  \A i \in 1..Len(items_db) :
    items_db[i].value.name # None /\ items_db[i].value.price # None

\* C7: list answers 200 with at most limit items, and with none when skip is
\* at least the size of the store, for every skip and limit it accepts.
C7_ListAtMostLimit ==
  last.op = "list" =>
    /\ last.resp.status = 200
    /\ Len(last.resp.body) <= last.req.limit
    /\ last.req.skip >= Len(items_db) => last.resp.body = <<>>

\* the ids of the stored items in the order of their creation
CreationOrder ==
  SelectSeq([i \in 1..Len(drawn) |-> StrOfUuid(drawn[i])],
            LAMBDA id : DictHas(items_db, id))

\* C8: list with skip and limit not negative returns the items at positions
\* skip .. skip+limit-1 (from 0) of the stored items in creation order; after
\* two creates on an empty store, list(1, 10) returns the second-created item.
C8_ListIsCreationOrderSlice ==
  (last.op = "list" /\ last.req.skip >= 0 /\ last.req.limit >= 0) =>
    LET skip == last.req.skip
        limit == last.req.limit
        order == CreationOrder
        got == last.resp.body
    IN  /\ last.resp.status = 200
        /\ Len(order) = Len(items_db)
        /\ Len(got) = Max(0, Min(Len(order), skip + limit) - skip)
        /\ \A k \in 1..Len(got) : got[k] = DictGet(items_db, order[skip + k])
        /\ (last.req = [skip |-> 1, limit |-> 10]
            /\ Len(drawn) = 2 /\ Len(items_db) = 2) =>
             got = <<DictGet(items_db, StrOfUuid(drawn[2]))>>

\* C8 witness: list(1, 10) has returned the second-created of two items
\* after the first-created one was updated
C8_Witness ==
  /\ last.op = "list" /\ last.req = [skip |-> 1, limit |-> 10]
  /\ Len(drawn) = 2 /\ Len(items_db) = 2
  /\ DictGet(items_db, StrOfUuid(drawn[1])).name = None
  /\ last.resp.body = <<DictGet(items_db, StrOfUuid(drawn[2]))>>

\* the match the search claim states: lower-cased q is a substring of the
\* lower-cased name, or the description is present and lower-cased q is a
\* substring of the lower-cased description
ClaimedMatch(q, item) ==
  \/ item.name # None /\ StrIn(Lower(q), Lower(Val(item.name)))
  \/ /\ item.description # None
     /\ StrIn(Lower(q), Lower(Val(item.description)))

\* C9: in every reachable store, search(q) answers 200 with exactly the
\* stored items that match, in store order, none omitted or duplicated.
C9_SearchExact ==
  last.op = "search" =>
    /\ last.resp.status = 200
    /\ last.resp.body =
         SelectSeq(DictValues(items_db), LAMBDA item : ClaimedMatch(last.req, item))

\* C10: an update that answers a failure has left the store as it was, and
\* an update that answers 200 has written every supplied field and returns
\* the stored item.
C10_UpdateAllOrNothing ==
  [][ last'.op = "update" =>
        LET id == last'.req.item_id
            body == last'.req.body
        IN  IF last'.resp.status = 200
            THEN /\ DictHas(items_db', id)
                 /\ last'.resp.body = DictGet(items_db', id)
                 /\ \A f \in ItemFieldSet :
                      Supplied(body, f) => DictGet(items_db', id)[f] = body[f]
            ELSE items_db' = items_db
    ]_vars

\* C10 witness: an update with a two-field body has failed on a store that
\* holds an item
C10_Witness ==
  /\ last.op = "update" /\ last.resp.status # 200
  /\ Len(UpdateData(last.req.body)) > 1
  /\ items_db # <<>>

\* C11: health answers 200 with status "healthy" and total_items the number
\* of stored items, which is the number of successful creates minus the
\* number of successful deletes; an update or a failed request leaves that
\* number as it was.
C11_HealthCountsItems ==
  [][ /\ last'.op = "health" =>
           /\ last'.resp.status = 200
           /\ last'.resp.body.status = "healthy"
           /\ last'.resp.body.total_items = Len(items_db')
           /\ last'.resp.body.total_items =
                Len(drawn') - Cardinality(deleted_ids')
      /\ (last'.op = "update" \/ last'.resp.status # 200) =>
           Len(items_db') = Len(items_db)
    ]_vars

\* C11 witness: health has answered 1 after two creates and a delete, the
\* stored item being out of stock
C11_Witness ==
  /\ last.op = "health" /\ last.resp.body.total_items = 1
  /\ Len(drawn) = 2 /\ Cardinality(deleted_ids) = 1
  /\ items_db[1].value.in_stock = Some(FALSE)

\* the keys of a dict in iteration order, and the ids of a response's items
KeySeq(db) == [i \in 1..Len(db) |-> db[i].key]
IdSeq(items) == [i \in 1..Len(items) |-> items[i].id]

\* the ids of the items of db in the order uuid4() drew them at creation
OrderOf(db, draws) ==
  SelectSeq([i \in 1..Len(draws) |-> StrOfUuid(draws[i])],
            LAMBDA id : DictHas(db, id))

C15_ReadsLeaveStore ==
  [][ last'.op \in {"root", "list", "get", "search", "health"} =>
        items_db' = items_db
    ]_vars

\* C15 witness: a get has succeeded on a store of two items
C15_Witness ==
  /\ last.op = "get" /\ last.resp.status = 200
  /\ Len(items_db) = 2

\* C16: search with the empty query answers 200 with every item of the
\* store, in store order.
C16_EmptyQueryReturnsAll ==
  (last.op = "search" /\ last.req = <<>>) =>
    /\ last.resp.status = 200
    /\ last.resp.body = DictValues(items_db)

\* ----------------------------------------------------------------- routing
\* A path is the sequence of its segments and slashes: /items/search/ is
\* <<"/", "items", "/", "search", "/">>.

\* the routes in the order of their decorators
Routes ==
  << [method |-> "GET", path |-> <<"/">>, handler |-> "read_root"],
     [method |-> "POST", path |-> <<"/", "items", "/">>, handler |-> "create_item"],
     [method |-> "GET", path |-> <<"/", "items", "/">>, handler |-> "read_items"],
     [method |-> "GET", path |-> <<"/", "items", "/", "{item_id}">>,
      handler |-> "read_item"],
     [method |-> "PUT", path |-> <<"/", "items", "/", "{item_id}">>,
      handler |-> "update_item"],
     [method |-> "DELETE", path |-> <<"/", "items", "/", "{item_id}">>,
      handler |-> "delete_item"],
     [method |-> "GET", path |-> <<"/", "items", "/", "search", "/">>,
      handler |-> "search_items"],
     [method |-> "GET", path |-> <<"/", "health">>, handler |-> "health_check"] >>

IsParam(token) == token = "{item_id}"

\* a path matches a route's path when it has the same tokens, a parameter
\* standing for one segment (a str parameter takes no slash)
MutPathMatchesAnyTrailingSlash(template, path) ==
  LET p == IF Len(path) > 1 /\ path[Len(path)] = "/"
           THEN SubSeq(path, 1, Len(path) - 1) ELSE path
  IN  /\ Len(template) = Len(p)
      /\ \A i \in 1..Len(template) :
           \/ template[i] = p[i]
           \/ IsParam(template[i]) /\ p[i] # "/"
PathMatches(template, path) ==
  /\ Len(template) = Len(path)
  /\ \A i \in 1..Len(template) :
       \/ template[i] = path[i]
       \/ IsParam(template[i]) /\ path[i] # "/"

\* the values of the path parameters of a matching route
PathParams(template, path) ==
  SelectSeq([i \in 1..Len(template) |->
               IF IsParam(template[i]) THEN path[i] ELSE "/"],
            LAMBDA token : token # "/")

\* the path with its trailing slash removed, or added
ToggleSlash(path) ==
  IF path[Len(path)] = "/" THEN SubSeq(path, 1, Len(path) - 1)
  ELSE Append(path, "/")

\* the first route in declaration order whose method and path match; else
\* 405 when a path matches, 307 when the path with its trailing slash
\* toggled matches a route, 404 otherwise
Dispatch(method, path) ==
  LET full == {i \in 1..Len(Routes) :
                 Routes[i].method = method /\ PathMatches(Routes[i].path, path)}
      partial == {i \in 1..Len(Routes) : PathMatches(Routes[i].path, path)}
      first == CHOOSE i \in full : \A j \in full : i <= j
  IN  IF full # {}
      THEN [status |-> 200, handler |-> Routes[first].handler,
            params |-> PathParams(Routes[first].path, path)]
      ELSE IF partial # {}
      THEN [status |-> 405, handler |-> "none", params |-> <<>>]
      ELSE IF path # <<"/">>
              /\ \E i \in 1..Len(Routes) :
                   PathMatches(Routes[i].path, ToggleSlash(path))
      THEN [status |-> 307, handler |-> "none", params |-> <<>>]
      ELSE [status |-> 404, handler |-> "none", params |-> <<>>]

\* request methods and paths: every path of up to two segments, with and
\* without a trailing slash
Methods == {"GET", "POST", "PUT", "DELETE"}
Segments == {"items", "search", "health", "0-1"}
RequestPaths ==
  {<<"/">>}
    \cup {<<"/", a>> : a \in Segments}
    \cup {<<"/", a, "/">> : a \in Segments}
    \cup {<<"/", a, "/", b>> : a \in Segments, b \in Segments}
    \cup {<<"/", a, "/", b, "/">> : a \in Segments, b \in Segments}

Route ==
  \E method \in Methods, path \in RequestPaths :
    /\ last' = [op |-> "route", req |-> [method |-> method, path |-> path],
                resp |-> Dispatch(method, path)]
    /\ UNCHANGED <<items_db, drawn, deleted_ids, th, detached>>

RouteSpec == Init /\ [][Route]_vars

SearchPath == <<"/", "items", "/", "search", "/">>

\* C17: a GET of /items/search/ is dispatched to search_items, and not to
\* read_item with item_id "search", although read_item's route is declared
\* first.
C17_SearchPathReachesSearch ==
  (last.op = "route" /\ last.req = [method |-> "GET", path |-> SearchPath]) =>
    /\ last.resp.status = 200
    /\ last.resp.handler = "search_items"
    /\ ~(last.resp.handler = "read_item" /\ last.resp.params = <<"search">>)

\* C17 witness: a GET of /items/search/ has been dispatched to a handler
C17_Witness ==
  /\ last.op = "route" /\ last.req = [method |-> "GET", path |-> SearchPath]
  /\ last.resp.status = 200

\* ------------------------------------------------------------- concurrency
\* The handlers are plain functions, which the framework runs on worker
\* threads; a thread switch can fall between any two statements.  An Item
\* is an object: stored_item = items_db[item_id] is a reference to the
\* object under the key, and setattr writes that object in place.  The
\* object created under an id is named by that id; its fields live in
\* items_db while it is a value of the dict, and in detached after a del
\* while a thread still holds it.  Responses are not recorded here.
\* Two fields of a running update are history, not program state: expect is
\* the item as it was at the existence check with the fields of this request
\* and the fields other requests have written since; excused is set when the
\* id was deleted since, or another request wrote a field of this one.

\* stored_item = items_db[item_id]: a reference, not a copy
MutLoadStoredItemCopy(db, item_id) ==
  [shared |-> FALSE, obj |-> DictGet(db, item_id)]
LoadStoredItem(db, item_id) == [shared |-> TRUE, obj |-> <<>>]

\* the object a running update holds
Deref(l) ==
  IF ~l.stored.shared THEN l.stored.obj
  ELSE IF DictHas(items_db, l.item_id) THEN DictGet(items_db, l.item_id)
  ELSE CHOOSE o \in detached : o.id = l.item_id

\* the threads that run update_item on item_id, past its existence check
Updating(item_id) ==
  {u \in Threads : th[u].pc \in {"load", "loop", "store"}
                   /\ th[u].op = "update" /\ th[u].item_id = item_id}

\* the threads that hold a reference to the object of item_id
Holders(item_id) ==
  {u \in Updating(item_id) : th[u].pc \in {"loop", "store"} /\ th[u].stored.shared}

\* a running update the claim about concurrent updates no longer covers
Excuse(l) == [l EXCEPT !.excused = TRUE, !.expect = <<>>]

\* the values uuid4() can draw in a concurrent run, and the ids of the
\* requests of the threads
ConcUuidSpace == 1..MaxConcUuids
ConcIds == {StrOfUuid(n) : n \in ConcUuidSpace}

\* JSON bodies of POST /items/ in a concurrent run
ConcCreateBodies == {b \in CreateBodies : DOMAIN b = {"name", "price"}}

\* create_item, lines 40-43: only items_db[item_id] = new_item is shared
ConcCreate(t) ==
  /\ th[t] = Idle
  /\ \E body \in ConcCreateBodies :
       \E u \in Uuid4(Range(drawn)) \cap ConcUuidSpace :
         /\ drawn' = Append(drawn, u)
         /\ items_db' = create_item(items_db, body, u).db
  /\ UNCHANGED <<deleted_ids, last, th, detached>>

\* update_item, lines 61-62: the existence check; a 404 ends the handler
UpdCheck(t) ==
  /\ th[t] = Idle
  /\ \E item_id \in ConcIds, body \in UpdateBodies :
       th' = IF ~DictHas(items_db, item_id) THEN th
             ELSE [th EXCEPT ![t] =
                     [pc |-> "load", op |-> "update", item_id |-> item_id,
                      body |-> body, todo |-> <<>>,
                      stored |-> [shared |-> TRUE, obj |-> <<>>],
                      expect |-> ApplyFields(DictGet(items_db, item_id),
                                             UpdateData(body), body),
                      excused |-> FALSE]]
  /\ UNCHANGED <<items_db, drawn, deleted_ids, last, detached>>

\* update_item, lines 64-65: items_db[item_id] raises KeyError after a del
UpdLoad(t) ==
  /\ th[t].pc = "load" /\ th[t].op = "update"
  /\ th' = IF ~DictHas(items_db, th[t].item_id)
           THEN [th EXCEPT ![t] = Idle]
           ELSE LET todo == UpdateData(th[t].body)
                IN  [th EXCEPT ![t].stored = LoadStoredItem(items_db, th[t].item_id),
                               ![t].todo = todo,
                               ![t].pc = IF todo = <<>> THEN "store" ELSE "loop"]
  /\ UNCHANGED <<items_db, drawn, deleted_ids, last, detached>>

\* update_item, lines 67-68: one setattr(stored_item, field, value)
UpdSetAttr(t) ==
  /\ th[t].pc = "loop"
  /\ LET l == th[t]
         f == Head(l.todo)
         value == l.body[f]
         written == SetAttr(Deref(l), f, value)
         goes == IF Tail(l.todo) = <<>> THEN "store" ELSE "loop"
     IN  /\ th' = [u \in Threads |->
                     IF u = t
                     THEN [l EXCEPT !.todo = Tail(l.todo), !.pc = goes,
                                    !.stored = IF l.stored.shared THEN l.stored
                                               ELSE [l.stored EXCEPT !.obj = written]]
                     ELSE IF u \in Updating(l.item_id)
                     THEN IF Supplied(th[u].body, f) \/ th[u].excused
                          THEN Excuse(th[u])
                          ELSE [th[u] EXCEPT !.expect[f] = value]
                     ELSE th[u]]
         /\ items_db' = IF l.stored.shared /\ DictHas(items_db, l.item_id)
                        THEN [items_db EXCEPT
                                ![DictIndex(items_db, l.item_id)].value = written]
                        ELSE items_db
         /\ detached' = IF l.stored.shared /\ ~DictHas(items_db, l.item_id)
                        THEN (detached \ {Deref(l)}) \cup {written}
                        ELSE detached
  /\ UNCHANGED <<drawn, deleted_ids, last>>

\* update_item, lines 70-71: items_db[item_id] = stored_item, and the return
UpdStore(t) ==
  /\ th[t].pc = "store"
  /\ items_db' = DictSet(items_db, th[t].item_id, Deref(th[t]))
  /\ detached' = IF th[t].stored.shared
                 THEN {o \in detached : o.id # th[t].item_id} ELSE detached
  /\ th' = [th EXCEPT ![t] = Idle]
  /\ UNCHANGED <<drawn, deleted_ids, last>>

\* delete_item, lines 76-77: the existence check; a 404 ends the handler
DelCheck(t) ==
  /\ th[t] = Idle
  /\ \E item_id \in ConcIds :
       th' = IF ~DictHas(items_db, item_id) THEN th
             ELSE [th EXCEPT ![t] =
                     [pc |-> "load", op |-> "delete", item_id |-> item_id]]
  /\ UNCHANGED <<items_db, drawn, deleted_ids, last, detached>>

\* delete_item, lines 79-80: del items_db[item_id] raises KeyError when
\* another delete came first
DelDel(t) ==
  /\ th[t].pc = "load" /\ th[t].op = "delete"
  /\ LET item_id == th[t].item_id
     IN  IF ~DictHas(items_db, item_id)
         THEN /\ th' = [th EXCEPT ![t] = Idle]
              /\ UNCHANGED <<items_db, deleted_ids, detached>>
         ELSE /\ items_db' = DictDel(items_db, item_id)
              /\ deleted_ids' = deleted_ids \cup {item_id}
              /\ detached' = IF Holders(item_id) # {}
                             THEN detached \cup {DictGet(items_db, item_id)}
                             ELSE detached
              /\ th' = [u \in Threads |->
                          IF u = t THEN Idle
                          ELSE IF u \in Updating(item_id)
                          THEN Excuse(th[u])
                          ELSE th[u]]
  /\ UNCHANGED <<drawn, last>>

ConcNext ==
  \E t \in Threads :
    \/ ConcCreate(t)
    \/ UpdCheck(t)
    \/ UpdLoad(t)
    \/ UpdSetAttr(t)
    \/ UpdStore(t)
    \/ DelCheck(t)
    \/ DelDel(t)

ConcSpec == Init /\ [][ConcNext]_vars

\* C12: under ConcSpec every step keeps the per-key state machine: a key
\* goes from absent to present only by the create that drew its id, from
\* present to absent only by a delete of it, and an id whose delete has
\* succeeded is not a key of the store, also when an update of that id was
\* running while it was deleted.
C12_KeyStateMachine ==
  [][/\ \A k \in DictKeys(items_db') \ DictKeys(items_db) :
          /\ drawn' # drawn
          /\ k = StrOfUuid(drawn'[Len(drawn')])
     /\ \A k \in DictKeys(items_db) \ DictKeys(items_db') :
          k \in deleted_ids' \ deleted_ids
     /\ deleted_ids' \cap DictKeys(items_db') = {}]_vars

\* C13: under ConcSpec an update that completes, with no delete of its id
\* and no other request writing one of its fields since its existence
\* check, leaves under its id the item of the check with the fields of this
\* request and the fields the other requests wrote meanwhile, and nothing
\* else changed.
C13_NoLostUpdate ==
  [][\A t \in Threads :
       (th[t].pc = "store" /\ th'[t] = Idle /\ ~th[t].excused)
         => /\ DictHas(items_db', th[t].item_id)
            /\ DictGet(items_db', th[t].item_id) = th[t].expect]_vars

\* two updates of one id with disjoint fields have both written all their
\* fields, interleaved, and the item carries the values of both
C13_Witness ==
  \E t, u \in Threads :
    /\ t # u
    /\ th[t].pc = "store" /\ th[u].pc = "store"
    /\ th[t].item_id = th[u].item_id
    /\ ~th[t].excused /\ ~th[u].excused
    /\ \A f \in ItemFieldSet : ~(Supplied(th[t].body, f) /\ Supplied(th[u].body, f))
    /\ UpdateData(th[t].body) # <<>> /\ UpdateData(th[u].body) # <<>>
    /\ DictHas(items_db, th[t].item_id)
    /\ DictGet(items_db, th[t].item_id) = th[t].expect
    /\ th[t].expect = th[u].expect
    /\ \A f \in ItemFieldSet :
         /\ Supplied(th[t].body, f) => th[t].expect[f] = th[t].body[f]
         /\ Supplied(th[u].body, f) => th[t].expect[f] = th[u].body[f]

====
